---- MODULE Spec2Model ----
(***************************************************************************)
(* Model of src/actions/actions.py: the custom action handlers of the      *)
(* booking dialogue (parse_number, the three slot validators, the number   *)
(* formatter and the silent session-end handler).                          *)
(*                                                                         *)
(* Texts are sequences of one-character strings, so that strip(), lower(), *)
(* the regular expression \d+ and the float() grammar are computed         *)
(* character by character.  Python integers are unbounded: they are kept   *)
(* as records [neg, mag] whose magnitude is a sequence of decimal digits   *)
(* without leading zeros.  float() is IEEE-754 binary64 with               *)
(* round-to-nearest-even, computed exactly on those digit sequences.       *)
(* A slot value that is a number rather than a string is represented by    *)
(* its str() text, which is what both parse_number and float() read.       *)
(***************************************************************************)
EXTENDS Integers, Sequences, FiniteSets, TLC

VARIABLES slots, tracker, last, events, messages, raised, origin, value, parsed

vars == <<slots, tracker, last, events, messages, raised, origin, value, parsed>>

(***************************************************************************)
(* Texts                                                                   *)
(***************************************************************************)

\* Python's None, and a present text.
None == [present |-> FALSE, text |-> <<>>]

Txt(s) == [present |-> TRUE, text |-> s]

Digits == {"0", "1", "2", "3", "4", "5", "6", "7", "8", "9"}

DigitVal(c) ==
  CASE c = "0" -> 0 [] c = "1" -> 1 [] c = "2" -> 2 [] c = "3" -> 3
    [] c = "4" -> 4 [] c = "5" -> 5 [] c = "6" -> 6 [] c = "7" -> 7
    [] c = "8" -> 8 [] c = "9" -> 9

DigitChar(d) ==
  CASE d = 0 -> "0" [] d = 1 -> "1" [] d = 2 -> "2" [] d = 3 -> "3"
    [] d = 4 -> "4" [] d = 5 -> "5" [] d = 6 -> "6" [] d = 7 -> "7"
    [] d = 8 -> "8" [] d = 9 -> "9"

\* The characters str.strip() removes (those of the modelled alphabet).
Whitespace == {" ", "\t", "\n"}

UpperCase ==
  {"A", "B", "C", "D", "E", "F", "G", "H", "I", "J", "K", "L", "M",
   "N", "O", "P", "Q", "R", "S", "T", "U", "V", "W", "X", "Y", "Z"}

\* str.lower() on one character.
LowerChar(c) ==
  CASE c = "A" -> "a" [] c = "B" -> "b" [] c = "C" -> "c" [] c = "D" -> "d"
    [] c = "E" -> "e" [] c = "F" -> "f" [] c = "G" -> "g" [] c = "H" -> "h"
    [] c = "I" -> "i" [] c = "J" -> "j" [] c = "K" -> "k" [] c = "L" -> "l"
    [] c = "M" -> "m" [] c = "N" -> "n" [] c = "O" -> "o" [] c = "P" -> "p"
    [] c = "Q" -> "q" [] c = "R" -> "r" [] c = "S" -> "s" [] c = "T" -> "t"
    [] c = "U" -> "u" [] c = "V" -> "v" [] c = "W" -> "w" [] c = "X" -> "x"
    [] c = "Y" -> "y" [] c = "Z" -> "z" [] OTHER -> c

Lower(s) == [i \in 1..Len(s) |-> LowerChar(s[i])]

RECURSIVE LStrip(_)
LStrip(s) ==
  IF s # <<>> /\ Head(s) \in Whitespace THEN LStrip(Tail(s)) ELSE s

RECURSIVE RStrip(_)
RStrip(s) ==
  IF s # <<>> /\ s[Len(s)] \in Whitespace
    THEN RStrip(SubSeq(s, 1, Len(s) - 1))
    ELSE s

Strip(s) == RStrip(LStrip(s))

\* str(value).strip().lower()
\* A variant that strips but keeps the letter case; C6 rejects it.
NormaliseKeepCase(s) == Strip(s)

Normalise(s) == Lower(Strip(s))

(***************************************************************************)
(* Python integers: [neg, mag], mag a digit sequence without leading zeros *)
(***************************************************************************)

RECURSIVE StripZeros(_)
StripZeros(d) ==
  IF Len(d) > 1 /\ Head(d) = 0 THEN StripZeros(Tail(d)) ELSE d

IsZero(d) == \A i \in 1..Len(d) : d[i] = 0

Zeros(n) == [i \in 1..n |-> 0]

DigitsOf(s) == [i \in 1..Len(s) |-> DigitVal(s[i])]

\* int(text) of a run of decimal digits.
PyInt(ds) == [neg |-> FALSE, mag |-> StripZeros(ds)]

\* a < b, on magnitudes without leading zeros.
RECURSIVE LexLess(_, _)
LexLess(a, b) ==
  IF a = <<>> THEN FALSE
  ELSE IF Head(a) # Head(b) THEN Head(a) < Head(b)
  ELSE LexLess(Tail(a), Tail(b))

MagLess(a, b) ==
  IF Len(a) # Len(b) THEN Len(a) < Len(b) ELSE LexLess(a, b)

RECURSIVE NatDigits(_)
NatDigits(n) ==
  IF n < 10 THEN <<n>> ELSE Append(NatDigits(n \div 10), n % 10)

\* The Python comparison n > bound, bound a small natural number.
IntGreater(n, bound) == ~n.neg /\ MagLess(NatDigits(bound), n.mag)

\* str(n) of a Python integer.
PyStr(n) ==
  (IF n.neg /\ ~IsZero(n.mag) THEN <<"-">> ELSE <<>>)
    \o [i \in 1..Len(n.mag) |-> DigitChar(n.mag[i])]

\* floor(d / 2), with carry c coming in from the left.
RECURSIVE HalfFrom(_, _)
HalfFrom(d, c) ==
  IF d = <<>> THEN <<>>
  ELSE <<(c * 10 + Head(d)) \div 2>> \o HalfFrom(Tail(d), Head(d) % 2)

Half(d) == StripZeros(HalfFrom(d, 0))

IsOdd(d) == d[Len(d)] % 2 = 1

\* 2 * d + c, computed from the right.
RECURSIVE DoubleFrom(_, _)
DoubleFrom(d, c) ==
  IF d = <<>> THEN (IF c = 0 THEN <<>> ELSE <<c>>)
  ELSE LET x == 2 * d[Len(d)] + c
       IN  Append(DoubleFrom(SubSeq(d, 1, Len(d) - 1), x \div 10), x % 10)

Double(d) == StripZeros(DoubleFrom(d, 0))

RECURSIVE DoubleTimes(_, _)
DoubleTimes(d, k) ==
  IF k = 0 \/ IsZero(d) THEN d ELSE DoubleTimes(Double(d), k - 1)

RECURSIVE Inc(_)
Inc(d) ==
  IF d = <<>> THEN <<1>>
  ELSE IF d[Len(d)] < 9
    THEN SubSeq(d, 1, Len(d) - 1) \o <<d[Len(d)] + 1>>
    ELSE Append(Inc(SubSeq(d, 1, Len(d) - 1)), 0)

(***************************************************************************)
(* float(text) and int(float): IEEE-754 binary64, round to nearest even.   *)
(* Only int() ever reads the float, so a finite float is kept as its sign  *)
(* and the magnitude of its truncation toward zero.                        *)
(***************************************************************************)

\* 2^53 = 9007199254740992
Two53 == <<9, 0, 0, 7, 1, 9, 9, 2, 5, 4, 7, 4, 0, 9, 9, 2>>

\* Number of binary digits of m.
RECURSIVE BitLen(_)
BitLen(m) == IF IsZero(m) THEN 0 ELSE 1 + BitLen(Half(m))

\* Shift m right until it fits 53 bits, keeping the guard and sticky bits.
\* st = [m, k, guard, sticky]: the original is (m + 0.guard,sticky) * 2^k.
RECURSIVE ShiftTo53(_)
ShiftTo53(st) ==
  IF MagLess(st.m, Two53) THEN st
  ELSE ShiftTo53([m      |-> Half(st.m),
                  k      |-> st.k + 1,
                  guard  |-> IsOdd(st.m),
                  sticky |-> st.sticky \/ st.guard])

\* m * 2^k as a float magnitude: infinity from 2^1024 on.
Scale(m, k) ==
  IF k > 971 \/ (k = 971 /\ m = Two53)
    THEN [inf |-> TRUE, mag |-> <<0>>]
    ELSE [inf |-> FALSE, mag |-> DoubleTimes(m, k)]

\* Round the shifted value r to nearest, ties to even, and scale it back.
RoundShifted(r) ==
  Scale(IF r.guard /\ (r.sticky \/ IsOdd(r.m)) THEN Inc(r.m) ELSE r.m, r.k)

\* The binary64 nearest to i + (a fraction, nonzero iff fracNonZero), for
\* i >= 2^53: an integer, or infinity.
RoundLarge(i, fracNonZero) ==
  RoundShifted(ShiftTo53([m |-> i, k |-> 0, guard |-> FALSE,
                          sticky |-> fracNonZero]))

\* 10^L - f, for a fraction f of L digits that is not zero.
TenComplement(f) == StripZeros(Inc([j \in 1..Len(f) |-> 9 - f[j]]))

\* Whether c * 2^k > one.
RECURSIVE ExceedsWhenDoubled(_, _, _)
ExceedsWhenDoubled(c, one, k) ==
  IF MagLess(one, c) THEN TRUE
  ELSE IF k = 0 THEN FALSE
  ELSE ExceedsWhenDoubled(Double(c), one, k - 1)

\* Whether twice > one, or twice = one and i is odd.
AboveHalfOrOddTie(i, twice, one) ==
  MagLess(one, twice) \/ (twice = one /\ IsOdd(i))

\* Whether i + 0.f (i < 2^53 of b bits, f not zero) rounds to a binary64
\* >= i + 1: whether 1 - 0.f <= 2^-(54 - b); at b = 53 the binary64 values
\* are the integers and a tie goes to the even one.
RoundsUpAt(i, f, b) ==
  IF b = 53
    THEN AboveHalfOrOddTie(i, Double(StripZeros(f)), <<1>> \o Zeros(Len(f)))
    ELSE ~ExceedsWhenDoubled(TenComplement(f), <<1>> \o Zeros(Len(f)), 54 - b)

RoundsUp(i, f) == RoundsUpAt(i, f, BitLen(i))

\* trunc(binary64 nearest to i + 0.f), or infinity.
TruncRounded(i, f) ==
  IF ~MagLess(i, Two53) THEN RoundLarge(i, ~IsZero(f))
  ELSE IF IsZero(f) THEN [inf |-> FALSE, mag |-> i]
  ELSE [inf |-> FALSE, mag |-> IF RoundsUp(i, f) THEN Inc(i) ELSE i]

\* A digit part of the float grammar: digits, single underscores between.
ValidDigitPart(p) ==
  /\ p # <<>>
  /\ \A j \in 1..Len(p) : p[j] \in Digits \cup {"_"}
  /\ p[1] \in Digits /\ p[Len(p)] \in Digits
  /\ \A j \in 1..(Len(p) - 1) : ~(p[j] = "_" /\ p[j + 1] = "_")

IsDigitChar(c) == c \in Digits

PartDigits(p) == DigitsOf(SelectSeq(p, IsDigitChar))

\* First index of character c in s, or 0.
RECURSIVE IndexFrom(_, _, _)
IndexFrom(s, c, j) ==
  IF j > Len(s) THEN 0 ELSE IF s[j] = c THEN j ELSE IndexFrom(s, c, j + 1)

IndexOf(s, c) == IndexFrom(s, c, 1)

\* Value of a short digit sequence.
RECURSIVE SmallNat(_)
SmallNat(d) ==
  IF d = <<>> THEN 0 ELSE 10 * SmallNat(SubSeq(d, 1, Len(d) - 1)) + d[Len(d)]

\* An exponent's value; beyond four digits it saturates (the float is then
\* infinite or zero whatever the mantissa).
Saturated(d) == IF Len(d) > 4 THEN 99999 ELSE SmallNat(d)

ExpValue(d) == Saturated(StripZeros(d))

FloatError == [kind |-> "ValueError", neg |-> FALSE, mag |-> <<0>>]

FloatInf(neg) == [kind |-> "inf", neg |-> neg, mag |-> <<0>>]

FloatNum(neg, mag) == [kind |-> "num", neg |-> neg, mag |-> mag]

FloatOfTrunc(neg, t) == IF t.inf THEN FloatInf(neg) ELSE FloatNum(neg, t.mag)

\* The float of the nonzero decimal 0.sd * 10^m (sd without leading zeros).
Magnitude(neg, sd, m) ==
  IF m > 309 THEN FloatInf(neg)
  ELSE IF m < 0 THEN FloatNum(neg, <<0>>)
  ELSE FloatOfTrunc(neg,
         TruncRounded(IF m = 0 THEN <<0>>
                      ELSE IF m >= Len(sd) THEN sd \o Zeros(m - Len(sd))
                      ELSE SubSeq(sd, 1, m),
                      IF m >= Len(sd) THEN <<>>
                      ELSE SubSeq(sd, m + 1, Len(sd))))

\* The float of the decimal sd * 10^p.
PlaceDigits(neg, sd, p) ==
  IF IsZero(sd) THEN FloatNum(neg, <<0>>) ELSE Magnitude(neg, sd, Len(sd) + p)

\* The decimal number  ip.fp * 10^e  (digit sequences ip, fp) as a float.
DecimalFloat(neg, ip, fp, e) ==
  PlaceDigits(neg, StripZeros(ip \o fp), e - Len(fp))

\* The exponent part after "e": [sign] digitpart.
SignedExponent(sign, body) ==
  IF ValidDigitPart(body)
    THEN [ok |-> TRUE, e |-> sign * ExpValue(PartDigits(body))]
    ELSE [ok |-> FALSE, e |-> 0]

ParseExponent(x) ==
  IF x # <<>> /\ Head(x) \in {"+", "-"}
    THEN SignedExponent(IF Head(x) = "-" THEN 0 - 1 ELSE 1, Tail(x))
    ELSE SignedExponent(1, x)

\* The mantissa's integer part ip and fraction part fp, and the exponent.
ParseParts(neg, ip, fp, ex) ==
  IF /\ ex.ok
     /\ (ip # <<>> \/ fp # <<>>)
     /\ (ip = <<>> \/ ValidDigitPart(ip))
     /\ (fp = <<>> \/ ValidDigitPart(fp))
    THEN DecimalFloat(neg, PartDigits(ip), PartDigits(fp), ex.e)
    ELSE FloatError

SplitAtDot(neg, mant, dot, ex) ==
  ParseParts(neg,
             IF dot = 0 THEN mant ELSE SubSeq(mant, 1, dot - 1),
             IF dot = 0 THEN <<>> ELSE SubSeq(mant, dot + 1, Len(mant)),
             ex)

ParseMantissa(neg, mant, ex) == SplitAtDot(neg, mant, IndexOf(mant, "."), ex)

SplitAtExponent(neg, u, ePos) ==
  IF ePos = 0 THEN ParseMantissa(neg, u, [ok |-> TRUE, e |-> 0])
  ELSE ParseMantissa(neg, SubSeq(u, 1, ePos - 1),
                     ParseExponent(SubSeq(u, ePos + 1, Len(u))))

\* An unsigned decimal literal of the float grammar (lower case).
ParseDecimal(neg, u) == SplitAtExponent(neg, u, IndexOf(u, "e"))

UnsignedFloat(neg, u) ==
  IF u \in {<<"i", "n", "f">>, <<"i", "n", "f", "i", "n", "i", "t", "y">>}
    THEN FloatInf(neg)
  ELSE IF u = <<"n", "a", "n">>
    THEN [kind |-> "nan", neg |-> neg, mag |-> <<0>>]
  ELSE ParseDecimal(neg, u)

SignedFloat(t) ==
  IF t # <<>> /\ Head(t) \in {"+", "-"}
    THEN UnsignedFloat(Head(t) = "-", Tail(t))
    ELSE UnsignedFloat(FALSE, t)

\* float(text): [kind, neg, mag], kind one of num, inf, nan, ValueError.
PyFloat(s) == SignedFloat(Normalise(s))

\* int(f): the integer, or the exception the conversion raises.
IntOf(f) ==
  CASE f.kind = "ValueError" ->
         [exc |-> "ValueError", int |-> [neg |-> FALSE, mag |-> <<0>>]]
    [] f.kind = "nan" ->
         [exc |-> "ValueError", int |-> [neg |-> FALSE, mag |-> <<0>>]]
    [] f.kind = "inf" ->
         [exc |-> "OverflowError", int |-> [neg |-> FALSE, mag |-> <<0>>]]
    [] f.kind = "num" ->
         [exc |-> "", int |-> [neg |-> f.neg, mag |-> f.mag]]

\* int(float(text))
IntOfFloat(s) == IntOf(PyFloat(s))

(***************************************************************************)
(* parse_number                                                            *)
(***************************************************************************)

ZeroInt == [neg |-> FALSE, mag |-> <<0>>]

\* What a call yields: an integer, None, or an exception that propagates.
ReturnInt(n) == [kind |-> "int", int |-> n, exc |-> ""]

ReturnNone == [kind |-> "none", int |-> ZeroInt, exc |-> ""]

Raise(e) == [kind |-> "raise", int |-> ZeroInt, exc |-> e]

word_map ==
  (<<"o", "n", "e">> :> 1) @@
  (<<"t", "w", "o">> :> 2) @@
  (<<"t", "h", "r", "e", "e">> :> 3) @@
  (<<"f", "o", "u", "r">> :> 4) @@
  (<<"f", "i", "v", "e">> :> 5) @@
  (<<"s", "i", "x">> :> 6) @@
  (<<"s", "e", "v", "e", "n">> :> 7) @@
  (<<"e", "i", "g", "h", "t">> :> 8) @@
  (<<"n", "i", "n", "e">> :> 9) @@
  (<<"t", "e", "n">> :> 10) @@
  (<<"e", "l", "e", "v", "e", "n">> :> 11) @@
  (<<"t", "w", "e", "l", "v", "e">> :> 12) @@
  (<<"j", "u", "s", "t", " ", "m", "e">> :> 1) @@
  (<<"m", "y", "s", "e", "l", "f">> :> 1) @@
  (<<"a", "l", "o", "n", "e">> :> 1) @@
  (<<"s", "o", "l", "o">> :> 1)

\* re.search(r'\d+', s): the leftmost maximal run of digits, or <<>>.
RECURSIVE RunEnd(_, _)
RunEnd(s, j) ==
  IF j < Len(s) /\ s[j + 1] \in Digits THEN RunEnd(s, j + 1) ELSE j

RECURSIVE RunStart(_, _)
RunStart(s, j) ==
  IF j > Len(s) THEN 0 ELSE IF s[j] \in Digits THEN j ELSE RunStart(s, j + 1)

\* A variant that matches one digit only (\d rather than \d+); C5 rejects it.
SearchOneDigit(s) ==
  LET a == RunStart(s, 1)
  IN  IF a = 0 THEN <<>> ELSE SubSeq(s, a, a)

SearchDigits(s) ==
  LET a == RunStart(s, 1)
  IN  IF a = 0 THEN <<>> ELSE SubSeq(s, a, RunEnd(s, a))

\* A variant whose except branch returns 0; C10 rejects it.
IntOrZero(f) ==
  IF f.exc = "" THEN ReturnInt(f.int)
  ELSE IF f.exc = "ValueError" THEN ReturnInt(ZeroInt)
  ELSE Raise(f.exc)

\* try: return int(float(str_val)) / except (ValueError, TypeError): None
IntOrNone(f) ==
  IF f.exc = "" THEN ReturnInt(f.int)
  ELSE IF f.exc = "ValueError" THEN ReturnNone
  ELSE Raise(f.exc)

\* match = re.search(...); if match: return int(match.group())
ParseMatch(str_val, match) ==
  IF match # <<>> THEN ReturnInt(PyInt(DigitsOf(match)))
  ELSE IntOrNone(IntOfFloat(str_val))

\* if str_val in word_map: return word_map[str_val]
ParseText(str_val) ==
  IF str_val \in DOMAIN word_map
    THEN ReturnInt([neg |-> FALSE, mag |-> NatDigits(word_map[str_val])])
    ELSE ParseMatch(str_val, SearchDigits(str_val))

parse_number(v) ==
  IF ~v.present THEN ReturnNone ELSE ParseText(Normalise(v.text))

(***************************************************************************)
(* The handlers.  A run yields the returned SlotSet events, the messages   *)
(* given to the dispatcher, and the exception that escaped ("" if none).   *)
(***************************************************************************)

Slots == {"num_guests", "num_rooms", "confirm_booking"}

SlotSet(slot, val) == [slot |-> slot, val |-> val]

Return(evs, msgs) == [events |-> evs, messages |-> msgs, exc |-> ""]

Escape(e) == [events |-> <<>>, messages |-> <<>>, exc |-> e]

\* A variant without the early return for an absent slot; C4 rejects it.
GuestsOutcomeNoAbsentCheck(raw, guests) ==
  IF guests.kind = "raise" THEN Escape(guests.exc)
  ELSE IF guests.kind = "none"
    THEN Return(<<SlotSet("num_guests", None)>>,
                <<"I didn't catch the number of guests. Please enter a number, for example: 2">>)
  ELSE IF IntGreater(guests.int, 24)
    THEN Return(<<SlotSet("num_guests", None)>>,
                <<"We can only accommodate up to 24 guests. Please enter a smaller number.">>)
  ELSE Return(<<SlotSet("num_guests", Txt(PyStr(guests.int)))>>, <<>>)

\* The body of ValidateNumGuests.run, given raw and parse_number(raw).
GuestsOutcome(raw, guests) ==
  IF ~raw.present THEN Return(<<>>, <<>>)
  ELSE IF guests.kind = "raise" THEN Escape(guests.exc)
  ELSE IF guests.kind = "none"
    THEN Return(<<SlotSet("num_guests", None)>>,
                <<"I didn't catch the number of guests. Please enter a number, for example: 2">>)
  ELSE IF IntGreater(guests.int, 24)
    THEN Return(<<SlotSet("num_guests", None)>>,
                <<"We can only accommodate up to 24 guests. Please enter a smaller number.">>)
  ELSE Return(<<SlotSet("num_guests", Txt(PyStr(guests.int)))>>, <<>>)

ValidateNumGuests(trk) ==
  GuestsOutcome(trk["num_guests"], parse_number(trk["num_guests"]))

\* The body of ValidateNumRooms.run, given raw and parse_number(raw).
RoomsOutcome(raw, rooms) ==
  IF ~raw.present THEN Return(<<>>, <<>>)
  ELSE IF rooms.kind = "raise" THEN Escape(rooms.exc)
  ELSE IF rooms.kind = "none"
    THEN Return(<<SlotSet("num_rooms", None)>>,
                <<"I didn't catch the number of rooms. Please enter a number, for example: 1">>)
  ELSE IF IntGreater(rooms.int, 10)
    THEN Return(<<SlotSet("num_rooms", None)>>,
                <<"We have a maximum of 10 rooms per booking. Please enter a number between 1 and 10.">>)
  ELSE Return(<<SlotSet("num_rooms", Txt(PyStr(rooms.int)))>>, <<>>)

ValidateNumRooms(trk) ==
  RoomsOutcome(trk["num_rooms"], parse_number(trk["num_rooms"]))

yes_values ==
  {<<"t", "r", "u", "e">>,
   <<"y", "e", "s">>,
   <<"y", "e", "a", "h">>,
   <<"y", "e", "p">>,
   <<"c", "o", "r", "r", "e", "c", "t">>,
   <<"c", "o", "n", "f", "i", "r", "m">>,
   <<"c", "o", "n", "f", "i", "r", "m", "e", "d">>,
   <<"o", "k">>,
   <<"o", "k", "a", "y">>,
   <<"s", "u", "r", "e">>,
   <<"l", "o", "o", "k", "s", " ", "g", "o", "o", "d">>,
   <<"t", "h", "a", "t", "'", "s", " ", "r", "i", "g", "h", "t">>,
   <<"t", "h", "a", "t", "s", " ", "r", "i", "g", "h", "t">>,
   <<"r", "i", "g", "h", "t">>}

no_values ==
  {<<"f", "a", "l", "s", "e">>,
   <<"n", "o">>,
   <<"n", "o", "p", "e">>,
   <<"n", "a", "h">>,
   <<"w", "r", "o", "n", "g">>,
   <<"i", "n", "c", "o", "r", "r", "e", "c", "t">>,
   <<"c", "h", "a", "n", "g", "e">>,
   <<"u", "p", "d", "a", "t", "e">>,
   <<"e", "d", "i", "t">>,
   <<"n", "o", "t", " ", "r", "i", "g", "h", "t">>}

\* A variant that reads every unrecognised answer as a refusal; C3 rejects it.
ConfirmOutcomeDefaultFalse(raw, normalised) ==
  IF ~raw.present THEN Return(<<>>, <<>>)
  ELSE IF normalised \in yes_values
    THEN Return(<<SlotSet("confirm_booking", Txt(<<"t", "r", "u", "e">>))>>, <<>>)
  ELSE Return(<<SlotSet("confirm_booking", Txt(<<"f", "a", "l", "s", "e">>))>>, <<>>)

\* The body of ValidateConfirmBooking.run, given raw and its normal form.
ConfirmOutcome(raw, normalised) ==
  IF ~raw.present THEN Return(<<>>, <<>>)
  ELSE IF normalised \in yes_values
    THEN Return(<<SlotSet("confirm_booking", Txt(<<"t", "r", "u", "e">>))>>, <<>>)
  ELSE IF normalised \in no_values
    THEN Return(<<SlotSet("confirm_booking", Txt(<<"f", "a", "l", "s", "e">>))>>, <<>>)
  ELSE Return(<<SlotSet("confirm_booking", None)>>, <<>>)

ValidateConfirmBooking(trk) ==
  ConfirmOutcome(trk["confirm_booking"], Normalise(trk["confirm_booking"].text))

\* events.append(SlotSet(slot, str(int(float(val))))), or pass on ValueError.
Reformat(slot, acc, r) ==
  IF r.exc = ""
    THEN [acc EXCEPT !.events = Append(@, SlotSet(slot, Txt(PyStr(r.int))))]
  ELSE IF r.exc = "ValueError" THEN acc
  ELSE Escape(r.exc)

\* One pass of the loop body of ActionFormatNumbers.run over `slot`.
FormatSlot(trk, slot, acc) ==
  IF acc.exc # "" \/ ~trk[slot].present THEN acc
  ELSE Reformat(slot, acc, IntOfFloat(trk[slot].text))

ActionFormatNumbers(trk) ==
  FormatSlot(trk, "num_rooms",
             FormatSlot(trk, "num_guests", Return(<<>>, <<>>)))

ActionSessionEnd(trk) == Return(<<>>, <<>>)

(***************************************************************************)
(* The values the host may put into a slot                                 *)
(***************************************************************************)

\* Largest number the host puts into num_rooms as a plain decimal string.
MaxRooms == 12

\* Longest text over ParseAlphabet given to parse_number.
MaxLen == 3

\* Most whitespace characters put on either side of a number word.
MaxPad == 1

RawGuests ==
  {Txt(<<"2", "4">>),
   Txt(<<"2", "5">>),
   Txt(<<"0">>),
   Txt(<<"-", "5">>),
   Txt(<<"3", ".", "0">>),
   Txt(<<"2", ".", "5">>),
   Txt(<<"j", "u", "s", "t", " ", "m", "e">>),
   Txt(<<" ", "T", "h", "r", "e", "e">>),
   Txt(<<"r", "o", "o", "m", " ", "2", "b">>),
   Txt(<<"a", "b", "c">>),
   Txt(<<"i", "n", "f">>),
   Txt(<<"n", "a", "n">>),
   Txt(<<"9", "0", "0", "7", "1", "9", "9", "2", "5", "4", "7", "4", "0", "9", "9", "3">>)}

RawRooms ==
  {Txt(PyStr([neg |-> FALSE, mag |-> NatDigits(n)])) : n \in 0..MaxRooms}
    \cup
  {Txt(<<"t", "h", "r", "e", "e">>),
   Txt(<<"e", "l", "e", "v", "e", "n">>),
   Txt(<<"2", " ", "r", "o", "o", "m", "s">>),
   Txt(<<"l", "o", "t", "s">>),
   Txt(<<"i", "n", "f", "i", "n", "i", "t", "y">>)}

RawConfirm ==
  {Txt(<<"y", "e", "p">>),
   Txt(<<" ", "Y", "E", "S", " ">>),
   Txt(<<"L", "o", "o", "k", "s", " ", "G", "o", "o", "d">>),
   Txt(<<"n", "o">>),
   Txt(<<"N", "o", "t", " ", "R", "i", "g", "h", "t">>),
   Txt(<<"m", "e", "h">>),
   Txt(<<"t", "r", "u", "e">>)}

RawValues(slot) ==
  CASE slot = "num_guests" -> RawGuests
    [] slot = "num_rooms" -> RawRooms
    [] slot = "confirm_booking" -> RawConfirm

ParseAlphabet == {"0", "1", "9", "-", ".", " ", "e", "I", "n", "f", "a"}

TextsUpTo(n) == UNION {[1..k -> ParseAlphabet] : k \in 0..n}

UpperChar(c) ==
  IF \E u \in UpperCase : LowerChar(u) = c
    THEN CHOOSE u \in UpperCase : LowerChar(u) = c
    ELSE c

\* key with the letters at the positions of mask in upper case, between l
\* spaces and r tabs or spaces.
Variant(key, mask, l, r) ==
  [j \in 1..l |-> " "]
    \o [j \in 1..Len(key) |-> IF j \in mask THEN UpperChar(key[j]) ELSE key[j]]
    \o [j \in 1..r |-> IF j = 1 THEN "\t" ELSE " "]

WordVariants(key) ==
  {Variant(key, mask, l, r) :
     mask \in SUBSET (1..Len(key)), l \in 0..MaxPad, r \in 0..MaxPad}

ParseSamples ==
  {Txt(<<"r", "o", "o", "m", " ", "2", "b">>),
   Txt(<<"j", "u", "s", "t", " ", "m", "e">>),
   Txt(<<"a", "b", "c">>),
   Txt(<<"i", "n", "f", "i", "n", "i", "t", "y">>),
   Txt(<<"-", "I", "n", "f", "i", "n", "i", "t", "y">>),
   Txt(<<"+", "i", "n", "f">>),
   Txt(<<"3", ".", "7", "5">>),
   Txt(<<"-", "1", "2">>),
   Txt(<<"1", "e", "3">>),
   Txt(<<"0", "0", "7">>),
   Txt(<<"a", "1", "b", "2", "2">>),
   Txt(<<"9", "0", "0", "7", "1", "9", "9", "2", "5", "4", "7", "4", "0", "9", "9", "3">>),
   Txt(<<"t", "w", "e", "l", "v", "e", " ", "a", "p", "p", "l", "e", "s">>),
   Txt(<<"\t", "S", "o", "l", "o", " ">>)}

ParseInputs ==
  {None} \cup ParseSamples
    \cup {Txt(t) : t \in TextsUpTo(MaxLen)}
    \cup {Txt(t) : t \in UNION {WordVariants(key) : key \in DOMAIN word_map}}

(***************************************************************************)
(* The dialogue: the host fills slots and invokes the handlers; the        *)
(* SlotSet events a handler returns are applied to the slots.              *)
(*   slots     the tracker's current slot values                           *)
(*   tracker   the slot values the last invoked handler read               *)
(*   last      the name of the last step                                   *)
(*   events, messages, raised   what the last handler returned, told the   *)
(*             dispatcher, and the exception that escaped it               *)
(*   origin    who wrote each slot's current value last: nobody (unset),   *)
(*             the host, or the slot's validator (validated, reset); the   *)
(*             formatter's re-emission keeps it                            *)
(*   value, parsed   the argument and the result of a parse_number call    *)
(***************************************************************************)

Pending == [kind |-> "pending", int |-> ZeroInt, exc |-> ""]

RECURSIVE ApplyEvents(_, _)
ApplyEvents(sl, evs) ==
  IF evs = <<>> THEN sl
  ELSE ApplyEvents([sl EXCEPT ![Head(evs).slot] = Head(evs).val], Tail(evs))

RECURSIVE ValidatorOrigin(_, _)
ValidatorOrigin(og, evs) ==
  IF evs = <<>> THEN og
  ELSE ValidatorOrigin(
         [og EXCEPT ![Head(evs).slot] =
            IF Head(evs).val.present THEN "validated" ELSE "reset"],
         Tail(evs))

Init ==
  /\ slots = [s \in Slots |-> None]
  /\ tracker = [s \in Slots |-> None]
  /\ last = "session_start"
  /\ events = <<>>
  /\ messages = <<>>
  /\ raised = ""
  /\ origin = [s \in Slots |-> "unset"]
  /\ value = None
  /\ parsed = Pending

\* The host stores what the user (or the language model) gave for a slot.
SetSlot(slot, v) ==
  /\ slots' = [slots EXCEPT ![slot] = v]
  /\ origin' = [origin EXCEPT ![slot] = "host"]
  /\ tracker' = slots'
  /\ last' = "set_slot"
  /\ events' = <<>>
  /\ messages' = <<>>
  /\ raised' = ""
  /\ UNCHANGED <<value, parsed>>

\* The host runs handler `name` on the current slots and applies its events.
Run(name, r, validator) ==
  /\ tracker' = slots
  /\ last' = name
  /\ events' = r.events
  /\ messages' = r.messages
  /\ raised' = r.exc
  /\ slots' = ApplyEvents(slots, r.events)
  /\ origin' = IF validator THEN ValidatorOrigin(origin, r.events) ELSE origin
  /\ UNCHANGED <<value, parsed>>

validate_num_guests ==
  Run("validate_num_guests", ValidateNumGuests(slots), TRUE)

validate_num_rooms ==
  Run("validate_num_rooms", ValidateNumRooms(slots), TRUE)

validate_confirm_booking ==
  Run("validate_confirm_booking", ValidateConfirmBooking(slots), TRUE)

action_format_numbers ==
  Run("action_format_numbers", ActionFormatNumbers(slots), FALSE)

action_session_end ==
  Run("action_session_end", ActionSessionEnd(slots), FALSE)

HostFillsSlot == \E slot \in Slots : \E v \in RawValues(slot) : SetSlot(slot, v)

Next ==
  \/ HostFillsSlot
  \/ validate_num_guests
  \/ validate_num_rooms
  \/ validate_confirm_booking
  \/ action_format_numbers
  \/ action_session_end

Spec == Init /\ [][Next]_vars

(***************************************************************************)
(* parse_number on its own: one call on each input.                        *)
(***************************************************************************)

InitParse ==
  /\ value \in ParseInputs
  /\ parsed = Pending
  /\ slots = [s \in Slots |-> None]
  /\ tracker = [s \in Slots |-> None]
  /\ last = "session_start"
  /\ events = <<>>
  /\ messages = <<>>
  /\ raised = ""
  /\ origin = [s \in Slots |-> "unset"]

CallParseNumber ==
  /\ parsed = Pending
  /\ parsed' = parse_number(value)
  /\ UNCHANGED <<slots, tracker, last, events, messages, raised, origin, value>>

NextParse == CallParseNumber

SpecParse == InitParse /\ [][NextParse]_vars

(***************************************************************************)
(* Properties                                                              *)
(***************************************************************************)

CountSlots == {"num_guests", "num_rooms"}

Validators ==
  {[name |-> "validate_num_guests", slot |-> "num_guests", bound |-> 24],
   [name |-> "validate_num_rooms", slot |-> "num_rooms", bound |-> 10],
   [name |-> "validate_confirm_booking", slot |-> "confirm_booking", bound |-> 0]}

CountValidators == {c \in Validators : c.slot \in CountSlots}

HasDigit(t) == \E j \in 1..Len(t) : t[j] \in Digits

Emitted(slot, val) == \E j \in 1..Len(events) : events[j] = SlotSet(slot, val)

NatInt(n) == [neg |-> FALSE, mag |-> NatDigits(n)]

TrueText == Txt(<<"t", "r", "u", "e">>)

FalseText == Txt(<<"f", "a", "l", "s", "e">>)

\* The decimal string of an integer: digits without a leading zero, with an
\* optional minus sign, and not "-0".
IsCleanInteger(t) ==
  LET body == IF t # <<>> /\ Head(t) = "-" THEN Tail(t) ELSE t
  IN  /\ body # <<>>
      /\ \A j \in 1..Len(body) : body[j] \in Digits
      /\ (Len(body) = 1 \/ body[1] # "0")
      /\ ~(Head(t) = "-" /\ body = <<"0">>)

\* The outcome C1 states for a count validator whose parse_number gave p.
StatedOutcome(slot, bound, p) ==
  IF p.kind = "none" \/ (p.kind = "int" /\ IntGreater(p.int, bound))
    THEN /\ Len(messages) = 1
         /\ events = <<SlotSet(slot, None)>>
         /\ ~slots[slot].present
    ELSE /\ p.kind = "int"
         /\ messages = <<>>
         /\ events = <<SlotSet(slot, Txt(PyStr(p.int)))>>
         /\ slots[slot] = Txt(PyStr(p.int))

\* C1: for every present slot value each count validator produces exactly
\* one outcome: one message and a reset to absent when parse_number yields
\* unparseable or more than the bound (24 guests, 10 rooms), otherwise no
\* message and the slot set to the decimal string of the parsed integer.
C1_ExactlyOneOutcome ==
  \A c \in CountValidators :
    (last = c.name /\ tracker[c.slot].present)
      => StatedOutcome(c.slot, c.bound, parse_number(tracker[c.slot]))

\* C1 holds of every run of a count validator that returns.
C1_OutcomeWhenReturned ==
  \A c \in CountValidators :
    (last = c.name /\ tracker[c.slot].present /\ raised = "")
      => StatedOutcome(c.slot, c.bound, parse_number(tracker[c.slot]))

\* C2: no exception escapes any handler.
C2_NoExceptionEscapes == raised = ""

\* C3: for every present confirm_booking value the confirmation validator
\* returns exactly one update for confirm_booking and no message: "true"
\* for a text whose lowercased, trimmed form is in the affirmative set,
\* "false" for one in the negative set, absent for any other; the two sets
\* are disjoint.
C3_ConfirmationOutcome ==
  (last = "validate_confirm_booking" /\ tracker["confirm_booking"].present)
    => LET raw == tracker["confirm_booking"].text
           n   == Normalise(raw)
           now == slots["confirm_booking"]
       IN  /\ messages = <<>>
           /\ raised = ""
           /\ events = <<SlotSet("confirm_booking", now)>>
           /\ (n \in yes_values => now = TrueText)
           /\ (n \in no_values => now = FalseText)
           /\ (n \notin yes_values \cup no_values => now = None)
           /\ yes_values \cap no_values = {}
           /\ (raw = <<"y", "e", "p">> => now = TrueText)
           /\ (raw = <<" ", "Y", "E", "S", " ">> => now = TrueText)
           /\ (raw = <<"N", "o", "t", " ", "R", "i", "g", "h", "t">>
                 => now = FalseText)
           /\ (raw = <<"m", "e", "h">> => now = None)

C3_Witness ==
  /\ last = "validate_confirm_booking"
  /\ tracker["confirm_booking"] = Txt(<<" ", "Y", "E", "S", " ">>)
  /\ slots["confirm_booking"] = TrueText

\* C4: a validator invoked while its slot is absent returns no update and
\* emits no message, and the slots stay as they were; so it is when the slot
\* is absent because the validator itself has just reset it.
C4_AbsentSlotNoEffect ==
  \A c \in Validators :
    (last = c.name /\ ~tracker[c.slot].present)
      => /\ events = <<>>
         /\ messages = <<>>
         /\ raised = ""
         /\ slots = tracker

C4_Witness ==
  /\ last = "validate_num_guests"
  /\ origin["num_guests"] = "reset"
  /\ ~tracker["num_guests"].present
  /\ events = <<>>

\* The integer a run of digit characters denotes.
RunValue(run) ==
  IF Len(run) <= 9 THEN NatInt(SmallNat(DigitsOf(run)))
  ELSE [neg |-> FALSE, mag |-> StripZeros(DigitsOf(run))]

\* C5: for an input containing a decimal digit parse_number returns the
\* integer value of the leftmost maximal run of digits, whatever surrounds it.
C5_FirstDigitRun ==
  (parsed # Pending /\ value.present /\ HasDigit(value.text))
    => LET t == value.text
           a == CHOOSE a \in 1..Len(t) :
                  t[a] \in Digits /\ \A j \in 1..(a - 1) : t[j] \notin Digits
           b == CHOOSE b \in a..Len(t) :
                  /\ \A j \in a..b : t[j] \in Digits
                  /\ (b = Len(t) \/ t[b + 1] \notin Digits)
       IN  parsed = ReturnInt(RunValue(SubSeq(t, a, b)))

C5_Witness ==
  /\ value = Txt(<<"r", "o", "o", "m", " ", "2", "b">>)
  /\ parsed = ReturnInt(NatInt(2))

\* t is key up to letter case and leading or trailing whitespace.
SameUpToCaseAndPadding(t, key) ==
  \E l \in 0..(Len(t) - Len(key)) :
    /\ \A j \in 1..l : t[j] \in Whitespace
    /\ \A j \in 1..Len(key) : LowerChar(t[l + j]) = key[j]
    /\ \A j \in (l + Len(key) + 1)..Len(t) : t[j] \in Whitespace

\* C6: for every key of the word-number map, and every input that differs
\* from it only by letter case or surrounding whitespace, parse_number
\* returns exactly the mapped integer.
C6_WordMapExact ==
  \A key \in DOMAIN word_map :
    (parsed # Pending /\ value.present
       /\ SameUpToCaseAndPadding(value.text, key))
      => parsed = ReturnInt(NatInt(word_map[key]))

C6_Witness ==
  /\ value = Txt(<<" ", "J", "U", "S", "T", " ", "M", "E", "\t">>)
  /\ parsed = ReturnInt(NatInt(1))

\* C7: for every count slot holding a clean integer string the formatter
\* emits an update for that slot carrying the identical string (stated of
\* the runs that return).
C7_CleanIntegerUnchanged ==
  (last = "action_format_numbers" /\ raised = "")
    => \A s \in CountSlots :
         (tracker[s].present /\ IsCleanInteger(tracker[s].text))
           => Emitted(s, tracker[s]) /\ slots[s] = tracker[s]

\* C7, second part: a formatter pass over slots a formatter pass has just
\* written re-emits them unchanged.
C7_SecondPassEqualsFirst ==
  [][(last = "action_format_numbers" /\ raised = ""
        /\ last' = "action_format_numbers")
       => (slots' = slots /\ events' = events /\ raised' = "")]_vars

\* C8: once a count validator has accepted a value and its update has been
\* applied, a later run of the formatter re-emits exactly that string for
\* the slot.
C8_FormatterKeepsValidated ==
  last = "action_format_numbers"
    => \A s \in CountSlots :
         origin[s] = "validated"
           => Emitted(s, tracker[s]) /\ slots[s] = tracker[s]

\* C8 holds of every run of the formatter that returns.
C8_KeepsValidatedWhenReturned ==
  (last = "action_format_numbers" /\ raised = "")
    => \A s \in CountSlots :
         origin[s] = "validated"
           => Emitted(s, tracker[s]) /\ slots[s] = tracker[s]

\* C9: the result of parse_number is a non-negative integer or the
\* unparseable signal, for every input.
C9_NonNegativeOrUnparseable ==
  parsed # Pending
    => /\ parsed.kind \in {"int", "none"}
       /\ (parsed.kind = "int" => ~parsed.int.neg)

\* C9 holds of every call of parse_number that returns.
C9_NonNegativeWhenReturned ==
  (parsed # Pending /\ parsed.kind # "raise")
    => (parsed.kind = "int" => ~parsed.int.neg)

\* A present text parse_number cannot parse: no number word, no digit, and
\* nothing float() reads as a number.
Unparseable(t) ==
  /\ Normalise(t) \notin DOMAIN word_map
  /\ ~HasDigit(t)
  /\ PyFloat(t).kind \in {"ValueError", "nan"}

====
